---- MODULE Spec2Model ----
(***************************************************************************)
(* The build recipes of cp2k, fftw and vasp (builtin/packages)             *)
(* as a state machine.  One behaviour is one install of one concretized    *)
(* spec: the recipe's steps are taken one external invocation at a time,   *)
(* every external tool (configure, make, autoreconf) may succeed or fail.  *)
(* Under SpecRerun the same spec is installed a second time, under an      *)
(* environment that may differ, and the two installs are compared.         *)
(*                                                                         *)
(* A makefile line `KEY = a b c` is the record [k |-> KEY, v |-> <<a,b,c>>]*)
(* (v holds the elements of the Python list that ' '.join glues with one   *)
(* blank); an external invocation is [dir, cmd, args].                     *)
(***************************************************************************)
EXTENDS Integers, Sequences, FiniteSets, TLC

VARIABLES
    spec,        \* the concretized spec being installed (read-only)
    env,         \* os.environ of the build: LIBSMM_PATH, PWD and what vasp sets
    pc,          \* position in the recipe
    idx,         \* fftw: index of the precision the current phase is at
    mkf,         \* cp2k: lines written to arch/<arch>.<version>
    log,         \* external invocations so far, in order
    dirs,        \* build subdirectories that exist in the stage
    prefix,      \* what has been installed into the prefix
    err,         \* the exception that aborted the build, or NoError
    pwd_backup,  \* cp2k: local variable pwd_backup
    last,        \* outcome of the previous install of the same spec, or NoRun
    mkf_file     \* cp2k: the path `mkf` was opened at, and whether it is closed

vars == <<spec, env, pc, idx, mkf, log, dirs, prefix, err, pwd_backup, last, mkf_file>>

-----------------------------------------------------------------------------
(* Generic helpers *)

Range(s) == {s[i] : i \in 1..Len(s)}

IsPrefixOf(s, t) == Len(s) <= Len(t) /\ SubSeq(t, 1, Len(s)) = s

IsSuffixOf(s, t) == Len(s) <= Len(t) /\ SubSeq(t, Len(t) - Len(s) + 1, Len(t)) = s

Unset == "<unset>"
NoError == "none"
NoRun == [run |-> FALSE]
NoFile == [path |-> Unset, closed |-> FALSE]

\* Versions are tuples of integers, compared component by component.
RECURSIVE VerLE(_, _)
VerLE(a, b) ==
    IF a = <<>> \/ b = <<>> THEN TRUE
    ELSE IF Head(a) < Head(b) THEN TRUE
    ELSE IF Head(a) > Head(b) THEN FALSE
    ELSE VerLE(Tail(a), Tail(b))

\* spec.satisfies('@lo:') and spec.satisfies('@:hi'); a bound is matched by
\* every version it is a prefix of, so 2.1.5 satisfies '@:2'.
VerAtLeast(v, lo) == VerLE(lo, v)
VerAtMost(v, hi) == VerLE(v, hi)

Digit(d) ==
    CASE d = 0 -> "0" [] d = 1 -> "1" [] d = 2 -> "2" [] d = 3 -> "3"
      [] d = 4 -> "4" [] d = 5 -> "5" [] d = 6 -> "6" [] d = 7 -> "7"
      [] d = 8 -> "8" [] d = 9 -> "9"

\* '{0}'.format(n) for a natural number n
RECURSIVE IntStr(_)
IntStr(n) == IF n < 10 THEN Digit(n) ELSE IntStr(n \div 10) \o Digit(n % 10)

\* '{0:02d}'.format(n)
Fmt02d(n) == IF n < 10 THEN "0" \o Digit(n) ELSE IntStr(n)

\* join_path(a, b)
JoinPath(a, b) == a \o "/" \o b

-----------------------------------------------------------------------------
(* The environment and the file system the recipes read *)

\* Files that exist: os.path.isfile
Files == {"/opt/a/libsmm.a", "/opt/b/libsmm.a"}
IsFile(path) == path \in Files

LibsmmPaths == {Unset, "/opt/a/libsmm.a", "/opt/b/libsmm.a", "/opt/missing/libsmm.a"}
PwdValues == {Unset, "/home/user"}
\* cp2k reads LIBSMM_PATH and PWD; CRAYPE_LINK_TYPE and INSTALL_DIR are the
\* variables vasp sets, which nothing sets for the other recipes.
Envs == [LIBSMM_PATH : LibsmmPaths, PWD : PwdValues,
         CRAYPE_LINK_TYPE : {Unset}, INSTALL_DIR : {Unset}]

StageDir == "/stage/src"
\* os.getcwd()
Getcwd(d) == IF d = "." THEN StageDir ELSE JoinPath(StageDir, d)

-----------------------------------------------------------------------------
(* cp2k: the specs *)

Cp2kVersions == {<<3, 0>>, <<4, 1>>, <<5, 1>>}
Cp2kCompilers == {"gcc", "intel", "clang"}
SmmValues == {"libxsmm", "libsmm", "none"}

\* What the resolver chose for the dependencies: whether intel-mkl is in the
\* DAG, the MPI standard the mpi provider implements, the elpa release, and
\* whether superlu-dist is at 4.3.
DepProfiles == {
    [mkl |-> FALSE, mpi |-> <<3, 1>>, superlu43 |-> FALSE,
     elpa |-> [str |-> "2016.05.004", v |-> <<2016, 5, 4>>]],
    [mkl |-> TRUE, mpi |-> <<2, 2>>, superlu43 |-> TRUE,
     elpa |-> [str |-> "2014.05.001", v |-> <<2014, 5, 1>>]],
    [mkl |-> FALSE, mpi |-> <<3, 0>>, superlu43 |-> FALSE,
     elpa |-> [str |-> "2015.05.001", v |-> <<2015, 5, 1>>]] }

Cp2kArch == "linux-ubuntu16.04-x86_64"

Cp2kSpecs ==
    [pkg : {"cp2k"}, version : Cp2kVersions, compiler : Cp2kCompilers,
     static : BOOLEAN, mpi : BOOLEAN, smm : SmmValues, plumed : BOOLEAN,
     deps : DepProfiles]

\* self.compiler.cc, self.compiler.fc
CompilerCC(name) ==
    CASE name = "gcc" -> "/usr/bin/gcc"
      [] name = "intel" -> "/opt/intel/bin/icc"
      [] OTHER -> "/usr/bin/clang"
CompilerFC(name) ==
    CASE name = "gcc" -> "/usr/bin/gfortran"
      [] name = "intel" -> "/opt/intel/bin/ifort"
      [] OTHER -> "None"

\* Install prefixes.  A dependency that the recipe constrains by one of its own
\* variants (lapack~shared / lapack+shared, plumed+mpi / plumed~mpi, the pexsi
\* release) is a different spec, installed in a different prefix.
Cp2kPrefix == "/spack/cp2k"
Cp2kPrefixData == JoinPath(Cp2kPrefix, "data")
Cp2kPrefixBin == JoinPath(Cp2kPrefix, "bin")

Shared(s) == IF s.static THEN "~shared" ELSE "+shared"

DepPrefix(s, name) ==
    CASE name \in {"lapack", "blas", "scalapack"} -> "/spack/" \o name \o Shared(s)
      [] name = "plumed" -> "/spack/plumed" \o (IF s.mpi THEN "+mpi" ELSE "~mpi")
      [] name = "pexsi" ->
            "/spack/pexsi-" \o (IF VerAtLeast(s.version, <<5, 0>>) THEN "0.10" ELSE "0.9")
      [] OTHER -> "/spack/" \o name

\* Fftw.libs: shared = False if 'static' in the query's extra parameters.
FftwLibs(root, static) ==
    <<JoinPath(root, "lib/libfftw3") \o (IF static THEN ".a" ELSE ".so")>>

\* with_static: the query gets ':static' (or ',static') unless ~static.
with_static(s, query) == [name |-> query, static |-> s.static]

\* The package a query names ('libxc:fortran' asks libxc for its Fortran
\* libraries, 'mpi:cxx' the mpi provider for its C++ ones) and the library
\* file its libs start with
QueryPackage(name) ==
    CASE name = "libxc:fortran" -> "libxc"
      [] name = "mpi:cxx" -> "mpi"
      [] OTHER -> name
LibraryStem(name) ==
    CASE name = "libxc:fortran" -> "libxcf90"
      [] name = "mpi:cxx" -> "libmpi_cxx"
      [] name \in {"libint", "libxsmm"} -> name
      [] OTHER -> "lib" \o name

\* spec[query].libs: the library files of a dependency, static archives when
\* the query carries 'static'.
DepLibs(s, q) ==
    IF q.name = "fftw" THEN FftwLibs(DepPrefix(s, "fftw"), q.static)
    ELSE <<JoinPath(JoinPath(DepPrefix(s, QueryPackage(q.name)), "lib"),
                    LibraryStem(q.name) \o (IF q.static THEN ".a" ELSE ".so"))>>

PlainQuery(name) == [name |-> name, static |-> FALSE]

\* spec[query].headers.cpp_flags
CppFlags(s, name) == "-I" \o JoinPath(DepPrefix(s, name), "include")

\* LibraryList.search_flags over the libraries of several dependencies
RECURSIVE SearchFlags(_, _)
SearchFlags(s, names) ==
    IF names = <<>> THEN ""
    ELSE "-L" \o JoinPath(DepPrefix(s, Head(names)), "lib")
         \o (IF Len(names) > 1 THEN " " ELSE "") \o SearchFlags(s, Tail(names))

\* LibraryList + LibraryList
LibAdd(a, b) == a \o b

\* 'wannier90' in spec: depends_on('wannier90', when='@3.0+mpi')
HasWannier90(s) == s.version = <<3, 0>> /\ s.mpi

-----------------------------------------------------------------------------
(* cp2k: Cp2k.install, the flag lists *)

\* optflags with a catch-all entry for clang
optflags_WithClang ==
    [gcc |-> <<"-O2", "-mtune=native", "-funroll-loops", "-ffast-math",
               "-ftree-vectorize">>,
     intel |-> <<"-O2", "-ip", "-pc64", "-unroll">>,
     clang |-> <<"-O2">>]

\* optflags: the optimisation flags, keyed by compiler name
optflags ==
    [gcc |-> <<"-O2", "-mtune=native", "-funroll-loops", "-ffast-math",
               "-ftree-vectorize">>,
     intel |-> <<"-O2", "-ip", "-pc64", "-unroll">>]

IsIntel(s) == s.compiler = "intel"
IsGcc(s) == s.compiler = "gcc"

\* '-D__ELPA...' : by elpa release up to cp2k 4.x, by year and month after
ElpaDefine(s) ==
    LET elpa == s.deps.elpa IN
    IF VerAtMost(s.version, <<4, 999>>)
    THEN IF VerAtMost(elpa.v, <<2014, 5, 999>>) THEN "-D__ELPA"
         ELSE IF VerAtLeast(elpa.v, <<2014, 6>>) /\ VerAtMost(elpa.v, <<2015, 10, 999>>)
              THEN "-D__ELPA2"
         ELSE "-D__ELPA3"
    ELSE "-D__ELPA=" \o IntStr(elpa.v[1]) \o Fmt02d(elpa.v[2])

ElpaInclude(s, sub) ==
    "-I" \o JoinPath(JoinPath(JoinPath(DepPrefix(s, "elpa"), "include"),
                              "elpa-" \o s.deps.elpa.str), sub)

MpiVersionDefine(s) ==
    IF VerAtLeast(s.deps.mpi, <<3>>) THEN <<"-D__MPI_VERSION=3">>
    ELSE IF VerAtLeast(s.deps.mpi, <<2>>) THEN <<"-D__MPI_VERSION=2">>
    ELSE <<>>

\* dflags of the MPI block with '-D__parallel' appended outside the +mpi test
DflagsMpi_Unguarded(s) ==
    (IF s.mpi THEN MpiVersionDefine(s) ELSE <<>>)
    \o <<"-D__parallel">>
    \o (IF s.mpi
        THEN <<"-D__LIBPEXSI", "-D__SCALAPACK">> \o <<ElpaDefine(s)>>
             \o (IF HasWannier90(s) THEN <<"-D__WANNIER90">> ELSE <<>>)
        ELSE <<>>)

\* dflags as appended to by the MPI block
DflagsMpi(s) ==
    IF s.mpi
    THEN MpiVersionDefine(s)
         \o <<"-D__parallel", "-D__LIBPEXSI", "-D__SCALAPACK">>
         \o <<ElpaDefine(s)>>
         \o (IF HasWannier90(s) THEN <<"-D__WANNIER90">> ELSE <<>>)
    ELSE <<>>

\* dflags as appended to by the smm block
DflagsSmm(s) ==
    IF s.smm = "libsmm" THEN <<"-D__HAS_smm_dnn", "-D__HAS_smm_vec">>
    ELSE IF s.smm = "libxsmm" THEN <<"-D__LIBXSMM">>
    ELSE <<>>

DflagsPlumed(s) == IF s.plumed THEN <<"-D__PLUMED2">> ELSE <<>>

Dflags(s) ==
    <<"-D__DATA_DIR=" \o Cp2kPrefixData, "-DNDEBUG", "-D__FFTW3", "-D__LIBINT",
      "-D__LIBINT_MAX_AM=6", "-D__LIBDERIV_MAX_AM1=5", "-D__LIBXC">>
    \o (IF s.deps.mkl THEN <<"-D__FFTSG">> ELSE <<>>)
    \o (IF IsIntel(s)
        THEN <<"-D__INTEL", "-D__HAS_ISO_C_BINDING", "-D__USE_CP2K_TRACE", "-D__MKL">>
        ELSE <<>>)
    \o DflagsMpi(s) \o DflagsSmm(s) \o DflagsPlumed(s)

\* cppflags = [] ; cppflags.extend(dflags)
Cppflags(s) == <<>> \o Dflags(s)

\* cflags and cxxflags: template, compiler specific flag, then cppflags
Cflags(s) ==
    optflags[s.compiler]
    \o (IF IsIntel(s) THEN <<"-fp-model precise">> ELSE <<>>)
    \o Cppflags(s)

Cxxflags(s) ==
    optflags[s.compiler]
    \o (IF IsIntel(s) THEN <<"-fp-model precise">> ELSE <<>>)
    \o Cppflags(s)

FcflagsCompiler(s) ==
    IF IsIntel(s)
    THEN <<"-fp-model source", "-heap-arrays 64",
           "-diag-disable 8290,8291,10010,10212,11060", "-free", "-fpp">>
    ELSE IF IsGcc(s) THEN <<"-ffree-form", "-ffree-line-length-none">>
    ELSE <<>>

FcflagsMpi(s) ==
    IF s.mpi
    THEN (IF VerAtMost(s.version, <<4, 999>>) THEN <<>> ELSE <<ElpaInclude(s, "elpa")>>)
         \o <<ElpaInclude(s, "modules"),
              "-I" \o JoinPath(DepPrefix(s, "pexsi"), "fortran")>>
    ELSE <<>>

FcflagsSmm(s) == IF s.smm = "libxsmm" THEN <<CppFlags(s, "libxsmm")>> ELSE <<>>

\* fcflags before cppflags is appended to it
FcflagsOwn(s) ==
    FcflagsCompiler(s)
    \o <<CppFlags(s, "fftw"), CppFlags(s, "libxc")>>
    \o FcflagsMpi(s) \o FcflagsSmm(s)

Fcflags(s) == optflags[s.compiler] \o FcflagsOwn(s) \o Cppflags(s)

Ldflags(s) ==
    (IF s.mpi /\ s.deps.superlu43 THEN <<"-Wl,--allow-multiple-definition">> ELSE <<>>)
    \o <<SearchFlags(s, <<"fftw", "lapack", "blas", "libxc">>)>>
    \o (IF s.mpi THEN <<SearchFlags(s, <<"scalapack">>)>> ELSE <<>>)
    \o (IF s.smm = "libxsmm" THEN <<SearchFlags(s, <<"libxsmm">>)>> ELSE <<>>)

\* the libraries the MPI block adds, wannier90's included
LibsMpi(s) ==
    IF s.mpi
    THEN LibAdd(LibAdd(LibAdd(LibAdd(LibAdd(LibAdd(LibAdd(
            DepLibs(s, with_static(s, "elpa")),
            DepLibs(s, PlainQuery("pexsi"))),
            DepLibs(s, PlainQuery("superlu-dist"))),
            DepLibs(s, PlainQuery("parmetis"))),
            DepLibs(s, PlainQuery("metis"))),
            DepLibs(s, with_static(s, "scalapack"))),
            DepLibs(s, with_static(s, "mpi:cxx"))),
            <<"-lstdc++">>)
    ELSE <<>>

LibsWannier(s) ==
    IF s.mpi /\ HasWannier90(s)
    THEN <<JoinPath(JoinPath(DepPrefix(s, "wannier90"), "lib"), "libwannier.a")>>
    ELSE <<>>

\* The smm libraries with LIBSMM_PATH used whenever it is set
LibsSmm_WheneverSet(s, e) ==
    IF s.smm = "libsmm" \/ (s.smm = "none" /\ e.LIBSMM_PATH /= Unset) THEN <<e.LIBSMM_PATH>>
    ELSE IF s.smm = "libxsmm" THEN <<"/spack/libxsmm/lib/libxsmm.so">>
    ELSE <<>>

LibsSmm(s, e) ==
    IF s.smm = "libsmm" THEN <<e.LIBSMM_PATH>>
    ELSE IF s.smm = "libxsmm" THEN DepLibs(s, PlainQuery("libxsmm"))
    ELSE <<>>

LibsPlumed(s) == IF s.plumed THEN DepLibs(s, PlainQuery("plumed")) ELSE <<>>

\* libxc + fftw + lapack + blas
LibsTail(s) ==
    LibAdd(LibAdd(LibAdd(DepLibs(s, with_static(s, "libxc:fortran")),
                         DepLibs(s, with_static(s, "fftw"))),
                  DepLibs(s, with_static(s, "lapack"))),
           DepLibs(s, with_static(s, "blas")))

LibsHead(s) == DepLibs(s, with_static(s, "libint"))

\* LIBS with libxc, fftw, lapack and blas added before the plumed libraries
Libs_TailBeforePlumed(s, e) ==
    LibAdd(LibAdd(LibAdd(LibAdd(LibAdd(LibsHead(s), LibsMpi(s)), LibsWannier(s)),
                         LibsSmm(s, e)), LibsTail(s)), LibsPlumed(s))

Libs(s, e) ==
    LibAdd(LibAdd(LibAdd(LibAdd(LibAdd(LibsHead(s), LibsMpi(s)), LibsWannier(s)),
                         LibsSmm(s, e)), LibsPlumed(s)), LibsTail(s))

-----------------------------------------------------------------------------
(* cp2k: Cp2k.install, the makefile and the steps *)

\* '{0.architecture}-{0.compiler.name}'.format(spec)
cp2k_architecture(s) == Cp2kArch \o "-" \o s.compiler

cp2k_version(s) == IF ~s.mpi THEN "sopt" ELSE "popt"

\* The arch file named for the serial build whatever the spec
makefile_AlwaysSopt(s) == JoinPath("arch", cp2k_architecture(s) \o ".sopt")

\* join_path('arch', '.'.join([cp2k_architecture, cp2k_version]))
makefile(s) == JoinPath("arch", cp2k_architecture(s) \o "." \o cp2k_version(s))

\* fc = self.compiler.fc if '~mpi' in spec else self.spec['mpi'].mpifc
Cp2kFC(s) == IF ~s.mpi THEN CompilerFC(s.compiler) ELSE "/spack/mpi/bin/mpif90"

Line(k, v) == [k |-> k, v |-> v]

PlumedInc(s) ==
    JoinPath(JoinPath(DepPrefix(s, "plumed"), "lib"), "plumed/src/lib/Plumed.inc")

\* The translation errors without the os.path.isfile test
Cp2kTranslateError_NoIsFile(s, e) ==
    IF s.compiler \notin {"gcc", "intel"} THEN "KeyError:optflags"
    ELSE IF s.smm = "libsmm" /\ e.LIBSMM_PATH = Unset THEN "KeyError:LIBSMM_PATH"
    ELSE NoError

\* The exception raised while the makefile is open, if any: the lookup of the
\* compiler name in optflags, then the LIBSMM_PATH checks of smm=libsmm.
Cp2kTranslateError(s, e) ==
    IF s.compiler \notin DOMAIN optflags THEN "KeyError:optflags"
    ELSE IF s.smm = "libsmm" /\ e.LIBSMM_PATH = Unset THEN "KeyError:LIBSMM_PATH"
    ELSE IF s.smm = "libsmm" /\ ~IsFile(e.LIBSMM_PATH) THEN "IOError:LIBSMM_PATH"
    ELSE NoError

\* Every mkf.write of a translation that raises nothing, in order
Cp2kMakefile(s, e) ==
    (IF s.plumed THEN <<Line("include", <<PlumedInc(s)>>)>> ELSE <<>>)
    \o <<Line("CC", <<CompilerCC(s.compiler)>>)>>
    \o (IF IsIntel(s)
        THEN <<Line("CPP", <<"#", CompilerCC(s.compiler), "-P">>),
               Line("AR", <<"xiar", "-r">>)>>
        ELSE <<Line("CPP", <<"#", CompilerCC(s.compiler), "-E">>),
               Line("AR", <<"ar", "-r">>)>>)
    \o <<Line("FC", <<Cp2kFC(s)>>), Line("LD", <<Cp2kFC(s)>>)>>
    \o <<Line("DFLAGS", Dflags(s)), Line("CPPFLAGS", Cppflags(s)),
         Line("CFLAGS", Cflags(s)), Line("CXXFLAGS", Cxxflags(s)),
         Line("FCFLAGS", Fcflags(s)), Line("LDFLAGS", Ldflags(s))>>
    \o (IF IsIntel(s) THEN <<Line("LDFLAGS_C", Ldflags(s) \o <<"-nofor_main">>)>> ELSE <<>>)
    \o <<Line("LIBS", Libs(s, e))>>

\* The taxonomy of errors the recipes' exceptions fall under
ErrorClass(x) ==
    CASE x = "KeyError:optflags" -> "UnsupportedConfiguration"
      [] x = "InstallError:apple-clang" -> "UnsupportedConfiguration"
      [] x \in {"KeyError:LIBSMM_PATH", "IOError:LIBSMM_PATH", "KeyError:PWD"}
            -> "MissingExternalResource"
      [] x \in {"ProcessError", "OSError:chdir"} -> "ExternalToolFailure"
      [] OTHER -> "none"

Invocation(d, cmd, args) == [dir |-> d, cmd |-> cmd, args |-> args]

\* with open(makefile, 'w') as mkf: ... (lines 86-303).  The file is created
\* empty by open; an exception leaves it so.  Leaving the with block, by its
\* end or by an exception, closes the file.
Cp2kWriteMakefile ==
    /\ spec.pkg = "cp2k" /\ pc = "start"
    /\ mkf_file' = [path |-> makefile(spec), closed |-> TRUE]
    /\ LET x == Cp2kTranslateError(spec, env) IN
       IF x /= NoError
       THEN /\ err' = x /\ pc' = "failed" /\ mkf' = <<>>
       ELSE /\ err' = err /\ pc' = "written" /\ mkf' = Cp2kMakefile(spec, env)
    /\ UNCHANGED <<spec, env, idx, log, dirs, prefix, pwd_backup, last>>

\* with working_dir('makefiles'): pwd_backup = env['PWD']; env['PWD'] =
\* os.getcwd(); make(...) is started (lines 305-311).
Cp2kStartMake ==
    /\ spec.pkg = "cp2k" /\ pc = "written"
    /\ IF env.PWD = Unset
       THEN /\ err' = "KeyError:PWD" /\ pc' = "failed"
            /\ UNCHANGED <<env, log, pwd_backup>>
       ELSE /\ pwd_backup' = env.PWD
            /\ env' = [env EXCEPT !.PWD = Getcwd("makefiles")]
            /\ log' = Append(log, Invocation("makefiles", "make",
                         <<"ARCH=" \o cp2k_architecture(spec),
                           "VERSION=" \o cp2k_version(spec)>>))
            /\ pc' = "make" /\ err' = err
    /\ UNCHANGED <<spec, idx, mkf, dirs, prefix, last, mkf_file>>

\* make returns (line 311): on success env['PWD'] = pwd_backup and the
\* working directory is left (line 312); a failing make raises.
Cp2kMakeReturns ==
    /\ spec.pkg = "cp2k" /\ pc = "make"
    /\ \E ok \in BOOLEAN :
         IF ok
         THEN /\ env' = [env EXCEPT !.PWD = pwd_backup]
              /\ pc' = "copy_exe" /\ err' = err
         ELSE /\ err' = "ProcessError" /\ pc' = "failed"
              /\ UNCHANGED env
    /\ UNCHANGED <<spec, idx, mkf, log, dirs, prefix, pwd_backup, last, mkf_file>>

\* shutil.copytree(exe_dir, self.prefix.bin)
Cp2kCopyExe ==
    /\ spec.pkg = "cp2k" /\ pc = "copy_exe"
    /\ prefix' = prefix \cup {[src |-> JoinPath("exe", cp2k_architecture(spec)),
                               dst |-> Cp2kPrefixBin]}
    /\ pc' = "copy_data"
    /\ UNCHANGED <<spec, env, idx, mkf, log, dirs, err, pwd_backup, last, mkf_file>>

\* shutil.copytree('data', self.prefix.data)
Cp2kCopyData ==
    /\ spec.pkg = "cp2k" /\ pc = "copy_data"
    /\ prefix' = prefix \cup {[src |-> "data", dst |-> Cp2kPrefixData]}
    /\ pc' = "done"
    /\ UNCHANGED <<spec, env, idx, mkf, log, dirs, err, pwd_backup, last, mkf_file>>

-----------------------------------------------------------------------------
(* fftw: the specs *)

FftwVersions == {<<2, 1, 5>>, <<3, 3, 7>>}

\* The compiler: its name, str(self.compiler.version) as the number and what
\* follows it, the Fortran compilers (or "None"), and the OpenMP flag.
Toolchains == {
    [name |-> "gcc", version |-> [num |-> "7.2.0", suffix |-> ""],
     f77 |-> "/usr/bin/gfortran", fc |-> "/usr/bin/gfortran", openmp_flag |-> "-fopenmp"],
    [name |-> "clang", version |-> [num |-> "5.0.0", suffix |-> ""],
     f77 |-> "None", fc |-> "None", openmp_flag |-> "-fopenmp"],
    [name |-> "clang", version |-> [num |-> "9.0.0", suffix |-> "-apple"],
     f77 |-> "None", fc |-> "/usr/local/bin/gfortran", openmp_flag |-> "-fopenmp"] }

Targets == {"x86_64", "ppc64le"}

FftwSpecs ==
    [pkg : {"fftw"}, version : FftwVersions,
     float : BOOLEAN, double : BOOLEAN, long_double : BOOLEAN, quad : BOOLEAN,
     openmp : BOOLEAN, mpi : BOOLEAN, pfft_patches : BOOLEAN,
     compiler : Toolchains, target : Targets, run_tests : BOOLEAN]

FftwPrefix == "/spack/fftw"

\* The precisions in the order every phase visits them, and their directories
Precisions == <<"double", "float", "long_double", "quad">>

PrecisionDir(p) == IF p = "long_double" THEN "long-double" ELSE p

\* '+<precision>' in spec
VariantOn(s, p) == s[p]

-----------------------------------------------------------------------------
(* fftw: Fftw.configure *)

\* ver.endswith('-apple')
EndsWithApple(ver) == ver.suffix = "-apple"

\* The InstallError of +openmp with Apple's clang
FftwConfigureError(s) ==
    IF s.openmp /\ s.compiler.name = "clang" /\ EndsWithApple(s.compiler.version)
    THEN "InstallError:apple-clang"
    ELSE NoError

\* options with an explicit '--disable-mpi' when the mpi variant is off
FftwOptions_DisableMpi(s) ==
    (IF s.openmp /\ VerAtMost(s.version, <<2>>)
     THEN <<"CFLAGS=" \o s.compiler.openmp_flag>> ELSE <<>>)
    \o <<"--prefix=" \o FftwPrefix, "--enable-shared", "--enable-threads">>
    \o (IF s.compiler.f77 = "None" \/ s.compiler.fc = "None"
        THEN <<"--disable-fortran">> ELSE <<>>)
    \o (IF VerAtMost(s.version, <<2>>) THEN <<"--enable-type-prefix">> ELSE <<>>)
    \o (IF s.openmp THEN <<"--enable-openmp">> ELSE <<>>)
    \o (IF s.mpi THEN <<"--enable-mpi">> ELSE <<"--disable-mpi">>)

\* options, as built by lines 88-111
FftwOptions(s) ==
    (IF s.openmp /\ VerAtMost(s.version, <<2>>)
     THEN <<"CFLAGS=" \o s.compiler.openmp_flag>> ELSE <<>>)
    \o <<"--prefix=" \o FftwPrefix, "--enable-shared", "--enable-threads">>
    \o (IF s.compiler.f77 = "None" \/ s.compiler.fc = "None"
        THEN <<"--disable-fortran">> ELSE <<>>)
    \o (IF VerAtMost(s.version, <<2>>) THEN <<"--enable-type-prefix">> ELSE <<>>)
    \o (IF s.openmp THEN <<"--enable-openmp">> ELSE <<>>)
    \o (IF s.mpi THEN <<"--enable-mpi">> ELSE <<>>)

\* float_options and double_options
SimdOptions(s) ==
    IF s.target = "x86_64" /\ VerAtLeast(s.version, <<3>>)
    THEN <<"--enable-sse2">> ELSE <<>>

\* The configure arguments with the SIMD options given to every precision
ConfigureArgs_SimdEverywhere(s, p) ==
    CASE p = "double" -> FftwOptions(s) \o SimdOptions(s)
      [] p = "float" -> <<"--enable-float">> \o FftwOptions(s) \o SimdOptions(s)
      [] p = "long_double" -> <<"--enable-long-double">> \o FftwOptions(s) \o SimdOptions(s)
      [] p = "quad" -> <<"--enable-quad-precision">> \o FftwOptions(s) \o SimdOptions(s)

\* The arguments of the configure of one precision
ConfigureArgs(s, p) ==
    CASE p = "double" -> FftwOptions(s) \o SimdOptions(s)
      [] p = "float" -> <<"--enable-float">> \o FftwOptions(s) \o SimdOptions(s)
      [] p = "long_double" -> <<"--enable-long-double">> \o FftwOptions(s)
      [] p = "quad" -> <<"--enable-quad-precision">> \o FftwOptions(s)

\* configure with the single precision handled whatever the float variant
ConfigureEnabled_FloatAlways(s, p) ==
    CASE p = "double" -> s.double
      [] p = "float" -> TRUE
      [] p = "long_double" -> VerAtLeast(s.version, <<3>>) /\ s.long_double
      [] p = "quad" -> VerAtLeast(s.version, <<3>>) /\ s.quad

\* The condition under which configure handles a precision
ConfigureEnabled(s, p) ==
    CASE p = "double" -> s.double
      [] p = "float" -> s.float
      [] p = "long_double" -> VerAtLeast(s.version, <<3>>) /\ s.long_double
      [] p = "quad" -> VerAtLeast(s.version, <<3>>) /\ s.quad

\* The condition under which build, check and install handle a precision
MakeEnabled(s, p) == VariantOn(s, p)

-----------------------------------------------------------------------------
(* fftw: the phases autoreconf, configure, build, check, install *)

\* The phase after `ph` when its last precision has been handled.  check runs
\* after build when the install runs the tests.
NextPhase(s, ph) ==
    CASE ph = "configure" -> "build"
      [] ph = "build" -> IF s.run_tests THEN "check" ELSE "install"
      [] ph = "check" -> "install"
      [] ph = "install" -> "done"

\* Move on to the next precision of the phase, or to the next phase
Advance(ph) ==
    IF idx < Len(Precisions)
    THEN /\ idx' = idx + 1 /\ pc' = ph
    ELSE /\ idx' = 1 /\ pc' = NextPhase(spec, ph)

Abort(x) == /\ err' = x /\ pc' = "failed" /\ idx' = idx

\* Fftw.autoreconf
FftwAutoreconf ==
    /\ spec.pkg = "fftw" /\ pc = "autoreconf"
    /\ IF spec.pfft_patches
       THEN /\ log' = Append(log, Invocation(".", "autoreconf", <<"-ifv">>))
            /\ \E ok \in BOOLEAN :
                 IF ok THEN /\ pc' = "configure" /\ idx' = 0 /\ err' = err
                 ELSE Abort("ProcessError")
       ELSE /\ pc' = "configure" /\ idx' = 0 /\ UNCHANGED <<log, err>>
    /\ UNCHANGED <<spec, env, mkf, dirs, prefix, pwd_backup, last, mkf_file>>

\* Fftw.configure, lines 86-121: the options are assembled
FftwConfigureBegin ==
    /\ spec.pkg = "fftw" /\ pc = "configure" /\ idx = 0
    /\ IF FftwConfigureError(spec) /= NoError
       THEN Abort(FftwConfigureError(spec))
       ELSE /\ idx' = 1 /\ UNCHANGED <<pc, err>>
    /\ UNCHANGED <<spec, env, mkf, log, dirs, prefix, pwd_backup, last, mkf_file>>

\* Fftw.configure, lines 123-135: one precision.  working_dir(create=True)
\* makes the directory, ../configure runs in it.
FftwConfigureStep ==
    /\ spec.pkg = "fftw" /\ pc = "configure" /\ idx >= 1
    /\ LET p == Precisions[idx] IN
       IF ConfigureEnabled(spec, p)
       THEN /\ dirs' = dirs \cup {PrecisionDir(p)}
            /\ log' = Append(log, Invocation(PrecisionDir(p), "../configure",
                                             ConfigureArgs(spec, p)))
            /\ \E ok \in BOOLEAN :
                 IF ok THEN Advance("configure") /\ err' = err
                 ELSE Abort("ProcessError")
       ELSE /\ Advance("configure") /\ UNCHANGED <<dirs, log, err>>
    /\ UNCHANGED <<spec, env, mkf, prefix, pwd_backup, last, mkf_file>>

\* One precision of build, check or install: working_dir(dir) raises when
\* the directory does not exist, make(*args) runs in it otherwise.
MakeStep(ph, args, installs) ==
    /\ spec.pkg = "fftw" /\ pc = ph
    /\ LET p == Precisions[idx] IN
       IF MakeEnabled(spec, p)
       THEN IF PrecisionDir(p) \notin dirs
            THEN /\ Abort("OSError:chdir") /\ UNCHANGED <<log, prefix>>
            ELSE /\ log' = Append(log, Invocation(PrecisionDir(p), "make", args))
                 /\ \E ok \in BOOLEAN :
                      IF ok
                      THEN /\ Advance(ph) /\ err' = err
                           /\ prefix' = IF installs
                                        THEN prefix \cup {[src |-> PrecisionDir(p),
                                                           dst |-> FftwPrefix]}
                                        ELSE prefix
                      ELSE /\ Abort("ProcessError") /\ prefix' = prefix
       ELSE /\ Advance(ph) /\ UNCHANGED <<log, prefix, err>>
    /\ UNCHANGED <<spec, env, mkf, dirs, pwd_backup, last, mkf_file>>

\* Fftw.build
FftwBuildStep == MakeStep("build", <<>>, FALSE)

\* Fftw.check
FftwCheckStep == MakeStep("check", <<"check">>, FALSE)

\* Fftw.install
FftwInstallStep == MakeStep("install", <<"install">>, TRUE)

-----------------------------------------------------------------------------
(* vasp: setup_environment and install *)

VaspVersions == {<<5, 4, 4>>}
VaspSpecs == [pkg : {"vasp"}, version : VaspVersions]

\* self.prefix
VaspPrefix == "/spack/vasp"

\* What the user's environment may hold for the variables vasp sets
LinkTypes == {Unset, "dynamic", "static"}
InstallDirs == {Unset, "/home/user/vasp"}
VaspEnvs == [LIBSMM_PATH : {Unset}, PWD : {"/home/user"},
             CRAYPE_LINK_TYPE : LinkTypes, INSTALL_DIR : InstallDirs]

\* Vasp.setup_environment: spack_env.set of the two variables, applied to the
\* environment the build runs in before install is called
VaspSetupEnvironment ==
    /\ spec.pkg = "vasp" /\ pc = "setup_environment"
    /\ env' = [env EXCEPT !.CRAYPE_LINK_TYPE = "static", !.INSTALL_DIR = VaspPrefix]
    /\ pc' = "install"
    /\ UNCHANGED <<spec, idx, mkf, log, dirs, prefix, err, pwd_backup, last, mkf_file>>

\* Vasp.install: make('all') in the stage; a failing make raises
VaspInstall ==
    /\ spec.pkg = "vasp" /\ pc = "install"
    /\ log' = Append(log, Invocation(".", "make", <<"all">>))
    /\ \E ok \in BOOLEAN :
         IF ok THEN /\ pc' = "done" /\ err' = err
         ELSE /\ pc' = "failed" /\ err' = "ProcessError"
    /\ UNCHANGED <<spec, env, idx, mkf, dirs, prefix, pwd_backup, last, mkf_file>>

-----------------------------------------------------------------------------
(* The state machine *)

DefaultEnv ==
    [LIBSMM_PATH |-> Unset, PWD |-> "/home/user",
     CRAYPE_LINK_TYPE |-> Unset, INSTALL_DIR |-> Unset]

\* The environments an install of spec s is started in
StartEnvs(s) ==
    CASE s.pkg = "cp2k" -> Envs
      [] s.pkg = "vasp" -> VaspEnvs
      [] OTHER -> {DefaultEnv}

\* Where the install of s begins
StartPc(s) ==
    CASE s.pkg = "cp2k" -> "start"
      [] s.pkg = "vasp" -> "setup_environment"
      [] OTHER -> "autoreconf"

\* The state in which an install of s under e begins: a fresh stage, an empty
\* prefix
Start(s, e) ==
    /\ spec = s /\ env = e
    /\ pc = StartPc(s)
    /\ idx = 0 /\ mkf = <<>> /\ log = <<>> /\ dirs = {} /\ prefix = {}
    /\ err = NoError /\ pwd_backup = Unset /\ mkf_file = NoFile

Init ==
    /\ \E s \in Cp2kSpecs \cup FftwSpecs \cup VaspSpecs :
          \E e \in StartEnvs(s) : Start(s, e)
    /\ last = NoRun

Next ==
    \/ Cp2kWriteMakefile
    \/ Cp2kStartMake
    \/ Cp2kMakeReturns
    \/ Cp2kCopyExe
    \/ Cp2kCopyData
    \/ FftwAutoreconf
    \/ FftwConfigureBegin
    \/ FftwConfigureStep
    \/ FftwBuildStep
    \/ FftwCheckStep
    \/ FftwInstallStep
    \/ VaspSetupEnvironment
    \/ VaspInstall

Spec == Init /\ [][Next]_vars

\* The same spec is installed a second time, from a fresh stage and into a
\* fresh prefix, under an environment that may differ; what the first install
\* wrote and invoked is kept in `last` for comparison.
Rerun ==
    /\ pc \in {"done", "failed"} /\ last = NoRun
    /\ last' = [run |-> TRUE, pc |-> pc, err |-> err, mkf |-> mkf, log |-> log,
                libsmm |-> env.LIBSMM_PATH]
    /\ \E e \in StartEnvs(spec) :
         /\ spec' = spec /\ env' = e
         /\ pc' = StartPc(spec)
         /\ idx' = 0 /\ mkf' = <<>> /\ log' = <<>> /\ dirs' = {} /\ prefix' = {}
         /\ err' = NoError /\ pwd_backup' = Unset /\ mkf_file' = NoFile

NextRerun == Next \/ Rerun

SpecRerun == Init /\ [][NextRerun]_vars

-----------------------------------------------------------------------------
(* Reading the makefile and the invocation log *)

HasLine(m, k) == \E i \in 1..Len(m) : m[i].k = k

\* The value of the line KEY = ... of makefile m, <<>> when there is none
Channel(m, k) ==
    IF HasLine(m, k) THEN m[CHOOSE i \in 1..Len(m) : m[i].k = k].v ELSE <<>>

FlagChannels == {"DFLAGS", "CPPFLAGS", "CFLAGS", "CXXFLAGS", "FCFLAGS", "LDFLAGS", "LIBS"}

IsCp2k == spec.pkg = "cp2k"
IsFftw == spec.pkg = "fftw"

\* The cp2k translation has run and raised nothing
Translated ==
    /\ IsCp2k
    /\ \/ pc \in {"written", "make", "copy_exe", "copy_data", "done"}
       \/ pc = "failed" /\ err \in {"KeyError:PWD", "ProcessError"}

LibsmmErrors == {"KeyError:LIBSMM_PATH", "IOError:LIBSMM_PATH"}

ConfigureLog == SelectSeq(log, LAMBDA c : c.cmd = "../configure")

-----------------------------------------------------------------------------
(* C1 *)

LibsmmMissing ==
    /\ IsCp2k /\ spec.smm = "libsmm"
    /\ (env.LIBSMM_PATH = Unset \/ ~IsFile(env.LIBSMM_PATH))

\* C1 as stated: with smm=libsmm and LIBSMM_PATH unset or not an existing
\* file, translation fails with MissingExternalResource, no DFLAGS or LIBS line
\* is written, make is not invoked and nothing is copied; with another smm the
\* variable is not consulted and raises nothing.
C1_AsStated ==
    /\ (LibsmmMissing /\ pc /= "start") =>
          /\ pc = "failed"
          /\ ErrorClass(err) = "MissingExternalResource"
          /\ ~HasLine(mkf, "DFLAGS") /\ ~HasLine(mkf, "LIBS")
          /\ log = <<>> /\ prefix = {}
    /\ (IsCp2k /\ spec.smm /= "libsmm") => err \notin LibsmmErrors

\* C1, amended: the same, for the compilers optflags lists; with any other
\* compiler the translation has failed before, with the optflags KeyError
\* (UnsupportedConfiguration).  Whatever the compiler, nothing is written,
\* make is not invoked and nothing is copied.  With smm libxsmm or none the
\* variable is not read: no LIBSMM_PATH error, and no value of it occurs in
\* the makefile.
C1_LibsmmPathRequired ==
    /\ (LibsmmMissing /\ pc /= "start") =>
          /\ pc = "failed"
          /\ (spec.compiler \in {"gcc", "intel"} =>
                /\ ErrorClass(err) = "MissingExternalResource"
                /\ err = (IF env.LIBSMM_PATH = Unset THEN "KeyError:LIBSMM_PATH"
                          ELSE "IOError:LIBSMM_PATH"))
          /\ (spec.compiler \notin {"gcc", "intel"} =>
                ErrorClass(err) = "UnsupportedConfiguration")
          /\ mkf = <<>> /\ log = <<>> /\ prefix = {}
    /\ (IsCp2k /\ spec.smm /= "libsmm") =>
          /\ err \notin LibsmmErrors
          /\ \A i \in 1..Len(mkf) : Range(mkf[i].v) \cap LibsmmPaths = {}

C1_Witness ==
    /\ LibsmmMissing /\ spec.compiler = "gcc"
    /\ env.LIBSMM_PATH = "/opt/missing/libsmm.a"
    /\ pc = "failed" /\ err = "IOError:LIBSMM_PATH"

-----------------------------------------------------------------------------
(* C2 *)

MpiDefines ==
    {"-D__parallel", "-D__MPI_VERSION=2", "-D__MPI_VERSION=3", "-D__LIBPEXSI",
     "-D__SCALAPACK", "-D__ELPA", "-D__ELPA2", "-D__ELPA3", "-D__ELPA=201405",
     "-D__ELPA=201505", "-D__ELPA=201605", "-D__WANNIER90"}

\* Every library file an MPI-only dependency can contribute, and libstdc++
MpiLibs ==
    {"/spack/elpa/lib/libelpa.a", "/spack/elpa/lib/libelpa.so",
     "/spack/pexsi-0.9/lib/libpexsi.so", "/spack/pexsi-0.10/lib/libpexsi.so",
     "/spack/superlu-dist/lib/libsuperlu-dist.so",
     "/spack/parmetis/lib/libparmetis.so", "/spack/metis/lib/libmetis.so",
     "/spack/scalapack~shared/lib/libscalapack.a",
     "/spack/scalapack+shared/lib/libscalapack.so",
     "/spack/mpi/lib/libmpi_cxx.a", "/spack/mpi/lib/libmpi_cxx.so",
     "-lstdc++", "/spack/wannier90/lib/libwannier.a"}

ScalapackSearchFlags == {"-L/spack/scalapack~shared/lib", "-L/spack/scalapack+shared/lib"}

\* C2: with mpi disabled and gcc, no flag channel holds a define of the MPI
\* block, LIBS holds no MPI-linked library, LDFLAGS no scalapack search flag,
\* and FC and LD are the compiler's fc, not the MPI wrapper.
C2_NoMpiFlagsWithoutMpi ==
    (Translated /\ ~spec.mpi /\ spec.compiler = "gcc") =>
        /\ \A k \in FlagChannels : Range(Channel(mkf, k)) \cap MpiDefines = {}
        /\ Range(Channel(mkf, "LIBS")) \cap MpiLibs = {}
        /\ Range(Channel(mkf, "LDFLAGS")) \cap ScalapackSearchFlags = {}
        /\ Channel(mkf, "FC") = <<"/usr/bin/gfortran">>
        /\ Channel(mkf, "LD") = <<"/usr/bin/gfortran">>

C2_Witness ==
    /\ IsCp2k /\ ~spec.mpi /\ spec.compiler = "gcc" /\ spec.plumed
    /\ pc = "written" /\ HasLine(mkf, "DFLAGS") /\ HasLine(mkf, "LIBS")

-----------------------------------------------------------------------------
(* C3 *)

AllFlags == UNION {Range(Channel(mkf, k)) : k \in FlagChannels}

PlumedFlags ==
    {"-D__PLUMED2", "/spack/plumed+mpi/lib/libplumed.so", "/spack/plumed~mpi/lib/libplumed.so"}

LibxsmmFlags ==
    {"-D__LIBXSMM", "-I/spack/libxsmm/include", "-L/spack/libxsmm/lib",
     "/spack/libxsmm/lib/libxsmm.so"}

LibsmmFlags == {"-D__HAS_smm_dnn", "-D__HAS_smm_vec"}

CflagsArguments == {"CFLAGS=" \o tc.openmp_flag : tc \in Toolchains}

\* C3: a disabled variant emits none of its flags.  cp2k: ~plumed, smm other
\* than libxsmm, smm other than libsmm; fftw: ~openmp, ~mpi, and no invocation
\* at all in the directory of a disabled precision.
C3_DisabledVariantEmitsNothing ==
    /\ (Translated /\ ~spec.plumed) =>
          AllFlags \cap PlumedFlags = {} /\ ~HasLine(mkf, "include")
    /\ (Translated /\ spec.smm /= "libxsmm") => AllFlags \cap LibxsmmFlags = {}
    /\ (Translated /\ spec.smm /= "libsmm") => AllFlags \cap LibsmmFlags = {}
    /\ (IsFftw /\ ~spec.openmp) =>
          \A i \in 1..Len(log) :
              Range(log[i].args) \cap ({"--enable-openmp"} \cup CflagsArguments) = {}
    /\ (IsFftw /\ ~spec.mpi) =>
          \A i \in 1..Len(log) : "--enable-mpi" \notin Range(log[i].args)
    /\ IsFftw =>
          \A j \in 1..Len(Precisions) :
              ~VariantOn(spec, Precisions[j]) =>
                  /\ \A i \in 1..Len(log) : log[i].dir /= PrecisionDir(Precisions[j])
                  /\ PrecisionDir(Precisions[j]) \notin dirs

C3_Witness ==
    /\ IsFftw /\ ~spec.float /\ ~spec.openmp /\ ~spec.mpi /\ spec.double
    /\ pc = "done" /\ Len(log) >= 2

-----------------------------------------------------------------------------
(* C4 *)

\* C4: optflags has exactly the keys gcc and intel; with one of them the
\* translation never fails as UnsupportedConfiguration; with any other
\* compiler it fails so, before a line is written, and make is not invoked.
C4_OptflagsClosedMapping ==
    /\ DOMAIN optflags = {"gcc", "intel"}
    /\ (IsCp2k /\ spec.compiler \in {"gcc", "intel"}) =>
          ErrorClass(err) /= "UnsupportedConfiguration"
    /\ (IsCp2k /\ spec.compiler \notin {"gcc", "intel"} /\ pc /= "start") =>
          /\ pc = "failed" /\ err = "KeyError:optflags"
          /\ ErrorClass(err) = "UnsupportedConfiguration"
          /\ mkf = <<>> /\ log = <<>> /\ prefix = {}

C4_Witness ==
    /\ IsCp2k /\ spec.compiler = "clang" /\ spec.smm = "libxsmm"
    /\ pc = "failed" /\ err = "KeyError:optflags"

-----------------------------------------------------------------------------
(* C5 *)

\* C5 as stated: a build that failed has installed nothing: neither cp2k's
\* exe/<arch> or data nor any fftw precision is in the prefix.
C5_FailedBuildInstallsNothing == pc = "failed" => prefix = {}

-----------------------------------------------------------------------------
(* C6 *)

\* The spec with the boolean variant v disabled
Off(s, v) == [s EXCEPT ![v] = FALSE]

\* The precision a build directory belongs to
PrecisionOfDir(d) == IF d = "long-double" THEN "long_double" ELSE d

\* Channel k of the makefile of the spec at hand contains channel k of the
\* makefile of the same spec with v disabled, under the same environment
Cp2kChannelContains(v, k) ==
    Range(Channel(Cp2kMakefile(Off(spec, v), env), k)) \subseteq Range(Channel(mkf, k))

\* Every configure invocation made contains the arguments the same precision
\* gets with v disabled
FftwConfigureContains(v) ==
    \A i \in 1..Len(ConfigureLog) :
        Range(ConfigureArgs(Off(spec, v), PrecisionOfDir(ConfigureLog[i].dir)))
            \subseteq Range(ConfigureLog[i].args)

\* C6 as stated: with one of static, mpi, plumed (cp2k) or openmp, mpi (fftw)
\* enabled, every channel contains the same channel of the spec that differs
\* only in having that variant disabled.
C6_AsStated ==
    /\ \A v \in {"static", "mpi", "plumed"} :
          (Translated /\ spec[v]) => \A k \in FlagChannels : Cp2kChannelContains(v, k)
    /\ \A v \in {"openmp", "mpi"} :
          (IsFftw /\ spec[v]) => FftwConfigureContains(v)

\* C6, amended: the containment holds for plumed, for fftw's openmp and mpi,
\* for cp2k's mpi except in LIBS when plumed is enabled (LIBS then names the
\* library of plumed+mpi, not of plumed~mpi), and for static in every channel
\* but LDFLAGS and LIBS (which name the static or the shared libraries and
\* the directories of lapack, blas and scalapack built ~shared or +shared).
C6_EnabledVariantIsSuperset ==
    /\ \A v \in {"static", "mpi", "plumed"} :
          (Translated /\ spec[v]) =>
              \A k \in FlagChannels :
                  \/ v = "static" /\ k \in {"LDFLAGS", "LIBS"}
                  \/ v = "mpi" /\ k = "LIBS" /\ spec.plumed
                  \/ Cp2kChannelContains(v, k)
    /\ (Translated /\ spec.static) =>
          /\ ~Cp2kChannelContains("static", "LIBS")
          /\ ~Cp2kChannelContains("static", "LDFLAGS")
    /\ (Translated /\ spec.mpi /\ spec.plumed) => ~Cp2kChannelContains("mpi", "LIBS")
    /\ \A v \in {"openmp", "mpi"} :
          (IsFftw /\ spec[v]) => FftwConfigureContains(v)

C6_Witness ==
    /\ IsCp2k /\ spec.static /\ spec.mpi /\ spec.plumed /\ pc = "written"
    /\ HasLine(mkf, "LIBS")

-----------------------------------------------------------------------------
(* C7 *)

LastConfigureLog == SelectSeq(last.log, LAMBDA c : c.cmd = "../configure")

\* C7 as stated: a second install of the same spec writes the same makefile
\* and, when both installs complete, makes the same invocations, whatever
\* LIBSMM_PATH and PWD were in each.
C7_AsStated ==
    last.run =>
        /\ (IsCp2k /\ pc /= "start") => mkf = last.mkf
        /\ (pc = "done" /\ last.pc = "done") => log = last.log

\* C7, amended: the makefile depends on the spec and, with smm=libsmm, on
\* LIBSMM_PATH: two installs of a spec write the same makefile if smm is not
\* libsmm or LIBSMM_PATH is the same in both, whatever PWD was; when both
\* translations succeed they differ in the LIBS line at most.  Two completed
\* installs make the same invocations, and the configure invocations of two
\* fftw installs agree as far as both got.
C7_DeterministicGivenLibsmmPath ==
    last.run =>
        /\ (IsCp2k /\ pc /= "start"
              /\ (spec.smm = "libsmm" => env.LIBSMM_PATH = last.libsmm))
           => mkf = last.mkf
        /\ (IsCp2k /\ pc /= "start" /\ mkf /= <<>> /\ last.mkf /= <<>>) =>
              /\ Len(mkf) = Len(last.mkf)
              /\ \A i \in 1..Len(mkf) : mkf[i].k /= "LIBS" => mkf[i] = last.mkf[i]
        /\ (pc = "done" /\ last.pc = "done") => log = last.log
        /\ IsFftw => \/ IsPrefixOf(ConfigureLog, LastConfigureLog)
                     \/ IsPrefixOf(LastConfigureLog, ConfigureLog)

C7_Witness ==
    /\ last.run /\ IsCp2k /\ spec.smm = "libsmm"
    /\ last.err = "KeyError:PWD" /\ pc = "done"
    /\ mkf /= <<>> /\ mkf = last.mkf

-----------------------------------------------------------------------------
(* C8 *)

PhaseRank(c) ==
    CASE c.cmd = "autoreconf" -> 0
      [] c.cmd = "../configure" -> 1
      [] c.cmd = "make" /\ c.args = <<>> -> 2
      [] c.cmd = "make" /\ c.args = <<"check">> -> 3
      [] c.cmd = "make" /\ c.args = <<"install">> -> 4
      [] OTHER -> 5

DirRank(d) ==
    CASE d = "." -> 0 [] d = "double" -> 1 [] d = "float" -> 2
      [] d = "long-double" -> 3 [] d = "quad" -> 4 [] OTHER -> 5

PrecisionSwitch(d) ==
    CASE d = "double" -> <<>>
      [] d = "float" -> <<"--enable-float">>
      [] d = "long-double" -> <<"--enable-long-double">>
      [] d = "quad" -> <<"--enable-quad-precision">>
      [] OTHER -> <<"?">>

PrecisionSwitches == {"--enable-float", "--enable-long-double", "--enable-quad-precision"}

\* The arguments of a configure invocation after its precision switch, without
\* a final --enable-sse2
SharedArgs(c) ==
    LET rest == SubSeq(c.args, Len(PrecisionSwitch(c.dir)) + 1, Len(c.args))
    IN IF rest /= <<>> /\ rest[Len(rest)] = "--enable-sse2"
       THEN SubSeq(rest, 1, Len(rest) - 1) ELSE rest

\* C8: fftw's invocations come phase by phase (autoreconf, configure, make,
\* make check, make install) and inside a phase in the order double, float,
\* long-double, quad, each in the directory of its precision; a configure
\* starts with exactly the switch of its precision, followed by options that
\* are the same for all precisions; --enable-sse2 goes to double and float
\* only, on x86_64 with version 3 or later only.
C8_FftwInvocationPlan ==
    IsFftw =>
        /\ \A i, j \in 1..Len(log) :
              i < j => \/ PhaseRank(log[i]) < PhaseRank(log[j])
                       \/ /\ PhaseRank(log[i]) = PhaseRank(log[j])
                          /\ DirRank(log[i].dir) < DirRank(log[j].dir)
        /\ \A i \in 1..Len(log) :
              /\ PhaseRank(log[i]) \in 0..4
              /\ (PhaseRank(log[i]) = 0) <=> (log[i].dir = ".")
              /\ DirRank(log[i].dir) \in 0..4
        /\ \A i \in 1..Len(ConfigureLog) :
              LET c == ConfigureLog[i] IN
              /\ IsPrefixOf(PrecisionSwitch(c.dir), c.args)
              /\ Range(SharedArgs(c)) \cap (PrecisionSwitches \cup {"--enable-sse2"}) = {}
              /\ SharedArgs(c) = SharedArgs(ConfigureLog[1])
              /\ "--enable-sse2" \in Range(c.args) =>
                    /\ c.dir \in {"double", "float"}
                    /\ spec.target = "x86_64" /\ spec.version[1] >= 3

C8_Witness ==
    /\ IsFftw /\ spec.double /\ spec.float /\ spec.long_double /\ spec.quad
    /\ spec.version = <<3, 3, 7>> /\ spec.target = "x86_64" /\ spec.run_tests
    /\ pc = "done" /\ Len(log) = 16
    /\ "--enable-sse2" \in Range(log[1].args)

-----------------------------------------------------------------------------
(* C9 *)

\* The directories a phase ran make in
MadeDirs(args) == {log[i].dir : i \in {j \in 1..Len(log) : log[j].cmd = "make" /\ log[j].args = args}}

ConfiguredDirs == {ConfigureLog[i].dir : i \in 1..Len(ConfigureLog)}

\* C9 as stated: build, check and install handle exactly the directories
\* configure created and configured: none of them enters a directory that
\* configure did not create, make runs only where configure ran, and an
\* install that completes has built and installed every configured directory.
C9_AsStated ==
    IsFftw =>
        /\ err /= "OSError:chdir"
        /\ \A i \in 1..Len(log) : log[i].cmd = "make" => log[i].dir \in ConfiguredDirs
        /\ pc = "done" => /\ MadeDirs(<<>>) = ConfiguredDirs
                          /\ MadeDirs(<<"install">>) = ConfiguredDirs

-----------------------------------------------------------------------------
(* C10 *)

LibExt == IF spec.static THEN ".a" ELSE ".so"

ExpectedLibsTail ==
    <<"/spack/libxc/lib/libxcf90" \o LibExt, "/spack/fftw/lib/libfftw3" \o LibExt,
      "/spack/lapack" \o Shared(spec) \o "/lib/liblapack" \o LibExt,
      "/spack/blas" \o Shared(spec) \o "/lib/libblas" \o LibExt>>

\* The block of the recipe a library between libint and libxc comes from
LibCategory(x) ==
    CASE x = "/spack/wannier90/lib/libwannier.a" -> 2
      [] x \in MpiLibs -> 1
      [] x \in {env.LIBSMM_PATH, "/spack/libxsmm/lib/libxsmm.so"} -> 3
      [] x \in PlumedFlags -> 4
      [] OTHER -> 0

ElpaReleases == {"2014.05.001", "2015.05.001", "2016.05.004"}

\* The block an FCFLAGS element between the template and DFLAGS comes from
FcCategory(x) ==
    CASE x \in Range(FcflagsCompiler(spec)) -> 1
      [] x = "-I/spack/fftw/include" -> 2
      [] x = "-I/spack/libxc/include" -> 3
      [] x \in {"-I/spack/elpa/include/elpa-" \o r \o "/elpa" : r \in ElpaReleases} -> 4
      [] x \in {"-I/spack/elpa/include/elpa-" \o r \o "/modules" : r \in ElpaReleases} -> 5
      [] x \in {"-I/spack/pexsi-0.9/fortran", "-I/spack/pexsi-0.10/fortran"} -> 6
      [] x = "-I/spack/libxsmm/include" -> 7
      [] OTHER -> 0

Between(ch, pre, suf) == SubSeq(ch, Len(pre) + 1, Len(ch) - Len(suf))

CompilerSpecificC == IF spec.compiler = "intel" THEN <<"-fp-model precise">> ELSE <<>>

\* C10: CPPFLAGS equals DFLAGS; CFLAGS and CXXFLAGS are the compiler's
\* template, the compiler specific flag, then DFLAGS; FCFLAGS is the template,
\* the compiler specific flags and the include flags of fftw, libxc, elpa,
\* pexsi and libxsmm in that order, then DFLAGS; LIBS is libint, then the MPI,
\* wannier90, smm and plumed libraries in that order, then libxc, fftw,
\* lapack, blas; LDFLAGS_C is written for intel only and is LDFLAGS followed
\* by -nofor_main.
C10_ChannelsKeepAppendOrder ==
    Translated =>
        LET tpl == IF spec.compiler = "gcc"
                   THEN <<"-O2", "-mtune=native", "-funroll-loops", "-ffast-math",
                          "-ftree-vectorize">>
                   ELSE <<"-O2", "-ip", "-pc64", "-unroll">>
            dfl == Channel(mkf, "DFLAGS")
            fc == Channel(mkf, "FCFLAGS")
            fcmid == Between(fc, tpl, dfl)
            libs == Channel(mkf, "LIBS")
            mid == Between(libs, <<libs[1]>>, ExpectedLibsTail)
        IN
        /\ dfl /= <<>> /\ Channel(mkf, "CPPFLAGS") = dfl
        /\ Channel(mkf, "CFLAGS") = tpl \o CompilerSpecificC \o dfl
        /\ Channel(mkf, "CXXFLAGS") = tpl \o CompilerSpecificC \o dfl
        /\ IsPrefixOf(tpl, fc) /\ IsSuffixOf(dfl, fc)
        /\ IsPrefixOf(FcflagsCompiler(spec), fcmid)
        /\ \A i \in 1..Len(fcmid) : FcCategory(fcmid[i]) /= 0
        /\ \A i, j \in 1..Len(fcmid) :
              i < j => \/ FcCategory(fcmid[i]) < FcCategory(fcmid[j])
                       \/ FcCategory(fcmid[i]) = 1 /\ FcCategory(fcmid[j]) = 1
        /\ libs[1] = "/spack/libint/lib/libint" \o LibExt
        /\ IsSuffixOf(ExpectedLibsTail, libs)
        /\ \A i \in 1..Len(mid) : LibCategory(mid[i]) /= 0
        /\ \A i, j \in 1..Len(mid) : i < j => LibCategory(mid[i]) <= LibCategory(mid[j])
        /\ spec.mpi <=> (\E i \in 1..Len(mid) : LibCategory(mid[i]) = 1)
        /\ (spec.mpi /\ spec.version = <<3, 0>>)
              <=> (\E i \in 1..Len(mid) : LibCategory(mid[i]) = 2)
        /\ (spec.smm /= "none") <=> (\E i \in 1..Len(mid) : LibCategory(mid[i]) = 3)
        /\ spec.plumed <=> (\E i \in 1..Len(mid) : LibCategory(mid[i]) = 4)
        /\ HasLine(mkf, "LDFLAGS_C") <=> spec.compiler = "intel"
        /\ HasLine(mkf, "LDFLAGS_C") =>
              Channel(mkf, "LDFLAGS_C") = Channel(mkf, "LDFLAGS") \o <<"-nofor_main">>

C10_Witness ==
    /\ IsCp2k /\ spec.compiler = "intel" /\ spec.mpi /\ spec.plumed
    /\ spec.smm = "libxsmm" /\ spec.version = <<3, 0>>
    /\ pc = "written" /\ HasLine(mkf, "LDFLAGS_C") /\ Len(Channel(mkf, "LIBS")) >= 16

-----------------------------------------------------------------------------
(* C11: PWD around the make invocation of cp2k *)

\* cp2k's make has been started: pwd_backup holds the value PWD had when
\* install was called (nothing assigns env['PWD'] before line 308)
Cp2kMakeInvoked == IsCp2k /\ log /= <<>>

\* make is no longer running: install is past line 311 or has been left
Cp2kAfterMake == Cp2kMakeInvoked /\ pc \in {"copy_exe", "copy_data", "done", "failed"}

\* C11: cp2k's install leaves PWD unchanged: PWD is the makefiles directory
\* only while make runs, and on every path out of install after make was
\* invoked, whether make succeeded or failed, PWD again holds the value it
\* had before install was called.
C11_AsStated ==
    /\ (Cp2kMakeInvoked /\ pc = "make") => env.PWD = Getcwd("makefiles")
    /\ Cp2kAfterMake => env.PWD = pwd_backup

-----------------------------------------------------------------------------
(* C12: the makefile, the make invocation and the copied executables agree *)

Cp2kBuildModes == {"sopt", "popt"}

\* <architecture>-<compiler name> for each compiler
Cp2kArchNames == {Cp2kArch \o "-" \o c : c \in Cp2kCompilers}

MpiFortranWrapper == "/spack/mpi/bin/mpif90"

\* The keys a complete makefile has a line for
Cp2kRequiredKeys == {"CC", "CPP", "AR", "FC", "LD"} \cup FlagChannels

\* The makefile on disk is complete: opened at `path`, every line written, the
\* last write (LIBS) included, and closed
Cp2kMakefileComplete(path) ==
    /\ mkf_file = [path |-> path, closed |-> TRUE]
    /\ \A k \in Cp2kRequiredKeys : HasLine(mkf, k)
    /\ mkf[Len(mkf)].k = "LIBS"

\* What holds in every state: a and v are read from the make invocation
Cp2kMakefileAgrees ==
    /\ (IsCp2k /\ pc /= "start") =>
          \E v \in Cp2kBuildModes :
             /\ mkf_file.path = "arch/" \o Cp2kArch \o "-" \o spec.compiler \o "." \o v
             /\ v = "sopt" <=> ~spec.mpi
    /\ Cp2kMakeInvoked =>
          \E a \in Cp2kArchNames, v \in Cp2kBuildModes :
             /\ log = <<[dir |-> "makefiles", cmd |-> "make",
                         args |-> <<"ARCH=" \o a, "VERSION=" \o v>>]>>
             /\ a = Cp2kArch \o "-" \o spec.compiler
             /\ (v = "sopt" <=> ~spec.mpi) /\ (v = "popt" <=> spec.mpi)
             /\ Cp2kMakefileComplete("arch/" \o a \o "." \o v)
             /\ LET fc == IF v = "popt" THEN MpiFortranWrapper
                          ELSE CompilerFC(spec.compiler)
                IN Channel(mkf, "FC") = <<fc>> /\ Channel(mkf, "LD") = <<fc>>
             /\ \A x \in prefix : x.dst = Cp2kPrefixBin => x.src = "exe/" \o a
    /\ (IsCp2k /\ prefix /= {}) =>
          /\ Cp2kMakeInvoked /\ err = NoError /\ pc \in {"copy_data", "done"}
          /\ \E x \in prefix : x.dst = Cp2kPrefixBin

\* What every step keeps: once make has been invoked the makefile is not
\* written again, and the prefix changes only after make has returned
\* successfully
Cp2kMakefileStable ==
    /\ Cp2kMakeInvoked => (mkf' = mkf /\ mkf_file' = mkf_file)
    /\ (IsCp2k /\ prefix' /= prefix) =>
          (Cp2kMakeInvoked /\ pc \in {"copy_exe", "copy_data"} /\ err = NoError)

\* C12: in cp2k the makefile is written to
\* arch/<architecture>-<compiler name>.<VERSION> and is complete and closed
\* before make is invoked with ARCH=<architecture>-<compiler name> and the
\* same VERSION; VERSION is sopt exactly when mpi is disabled and popt exactly
\* when it is enabled; FC and LD are the MPI Fortran wrapper exactly when
\* VERSION is popt and the compiler's fc otherwise; the executables copied
\* into the prefix come from exe/<the same ARCH>, after make has returned.
C12_MakefileIsTheOneMakeUses ==
    [](Cp2kMakefileAgrees) /\ [][Cp2kMakefileStable]_vars

C12_Witness ==
    /\ IsCp2k /\ spec.mpi /\ pc = "done" /\ err = NoError
    /\ mkf_file.closed /\ Channel(mkf, "FC") = <<MpiFortranWrapper>>
    /\ Len(log) = 1 /\ log[1].args[2] = "VERSION=popt"
    /\ \E x \in prefix : x.dst = Cp2kPrefixBin

====
